---- MODULE Spec2Model ----
(***************************************************************************)
(* Model of aws_org_costcategories_auto.py: the Lambda handler that        *)
(* publishes AWS Cost Categories from the account tags of an AWS           *)
(* Organization and skips the work when two stored digests are unchanged.  *)
(*                                                                         *)
(* The AWS services are the environment: the organization (accounts, their *)
(* tags, the tree of organizational units), the SSM parameter store, the   *)
(* Cost Explorer cost category definitions and the CloudFormation response *)
(* endpoint.  One run of lambda_handler is a sequence of steps, one per    *)
(* remote call, so that a failing call aborts the run where the code       *)
(* raises.                                                                 *)
(***************************************************************************)
EXTENDS Integers, Sequences, FiniteSets, TLC

\* ---------------------------------------------------------------- bounds
MaxAcct == 2
MaxOu == 1
MaxChanges == 1
MaxRetags == 2

Accounts == 1..MaxAcct
OuIds == 1..MaxOu
OuNames == {"n1", "n2"}
TagValues == {"a", "b"}

\* ------------------------------------------------- configuration (l.12-19)
CATEGORIES_TAGS == {"env", "team"}
OtherTagKeys == {"misc"}
TagKeys == CATEGORIES_TAGS \cup OtherTagKeys
ValuesOf(k) == IF k \in CATEGORIES_TAGS THEN TagValues ELSE {"x"}
SSM_PARAM_ORG_ACC_DIGEST == "acc"
SSM_PARAM_ORG_OUS_DIGEST == "ous"
RootId == 0

\* ------------------------------------------------------- generic helpers
Range(s) == {s[i] : i \in 1..Len(s)}

Perms(S) == {s \in [1..Cardinality(S) -> S] : \A i, j \in 1..Cardinality(S) : s[i] = s[j] => i = j}

Reverse(s) == [i \in 1..Len(s) |-> s[Len(s) + 1 - i]]

RECURSIVE Ascending(_)
Ascending(S) ==
    IF S = {} THEN <<>>
    ELSE LET x == CHOOSE y \in S : \A z \in S : y <= z IN <<x>> \o Ascending(S \ {x})

\* list.sort() on a list of ids: insertion of each element in its place
RECURSIVE InsertSorted(_, _)
InsertSorted(x, s) ==
    IF s = <<>> THEN <<x>>
    ELSE IF x <= Head(s) THEN <<x>> \o s
    ELSE <<Head(s)>> \o InsertSorted(x, Tail(s))

RECURSIVE sort(_)
sort(s) == IF s = <<>> THEN <<>> ELSE InsertSorted(Head(s), sort(Tail(s)))

\* ------------------------------------------------ hash_dict (l.189-193)
\* A JSON-representable object: a str, a list of objects, or a dict, which is
\* a sequence of [key, val] items in insertion order with string keys.
JStr(s) == [kind |-> "str", v |-> s]
JList(items) == [kind |-> "list", items |-> items]
JDict(items) == [kind |-> "dict", items |-> items]

\* the order of the strings that occur as keys: digits before upper case
\* (account ids are digit strings of one length, ordered as their numbers)
StringOrder == [i \in 1..(MaxAcct + 1) |-> ToString(i)] \o <<"Key", "Value">>

StrRank(s) == CHOOSE i \in 1..Len(StringOrder) : StringOrder[i] = s

RECURSIVE InsertItem(_, _)
InsertItem(e, s) ==
    IF s = <<>> THEN <<e>>
    ELSE IF StrRank(e.key) <= StrRank(Head(s).key) THEN <<e>> \o s
    ELSE <<Head(s)>> \o InsertItem(e, Tail(s))

RECURSIVE SortItems(_)
SortItems(m) == IF m = <<>> THEN <<>> ELSE InsertItem(Head(m), SortItems(Tail(m)))

ItemsUnsorted(m) == m

\* sort_keys=True: the items of a dict are written in the order of their keys
ItemsSorted(m) == SortItems(m)

\* json.dumps(obj, sort_keys=True): the text, as the nesting of its tokens; a
\* list keeps the order of its elements, a dict is written by sorted key, and
\* both hold for the objects nested in them
RECURSIVE json_dumps(_)
json_dumps(obj) ==
    IF obj.kind = "str" THEN <<"s", obj.v>>
    ELSE IF obj.kind = "list"
    THEN <<"[", [i \in 1..Len(obj.items) |-> json_dumps(obj.items[i])], "]">>
    ELSE LET sorted == ItemsSorted(obj.items)
         IN  <<"{", [i \in 1..Len(sorted) |-> <<sorted[i].key, json_dumps(sorted[i].val)>>], "}">>

\* hashlib.md5(...).hexdigest(): a digest stands for the text it was computed
\* from (no collisions); it is never the sentinel '-1'
md5_hexdigest(text) == <<"md5", text>>

hash_dict(obj) == md5_hexdigest(json_dumps(obj))

\* the object tags_tree is: account id -> list of the tag dicts as
\* list_tags_for_resource returns them, {"Key": k, "Value": v}
TagObject(tag) == JDict(<<[key |-> "Key", val |-> JStr(tag[1])], [key |-> "Value", val |-> JStr(tag[2])]>>)

TagsTreeObject(m) ==
    JDict([i \in 1..Len(m) |->
              [key |-> ToString(m[i].acct),
               val |-> JList([j \in 1..Len(m[i].tags) |-> TagObject(m[i].tags[j])])]])

\* the object org_units is: a list of unit ids
UnitsObject(l) == JList([i \in 1..Len(l) |-> JStr(l[i])])

hash_dict_map(m) == hash_dict(TagsTreeObject(m))
hash_dict_list(l) == hash_dict(UnitsObject(l))

\* the value ssm_get_digest returns for a missing parameter (l.124)
Sentinel == <<"-1">>

\* ------------------------- ce_build_cost_category_definitions (l.133-157)
\* tags_tree is an insertion-ordered mapping: a sequence of [acct, tags]
\* entries; cost_categories_map is an insertion-ordered mapping of
\* insertion-ordered mappings: a sequence of [key, vals], vals a sequence of
\* [value, accts].
RECURSIVE Triples(_)
Triples(tree) ==
    IF tree = <<>> THEN <<>>
    ELSE [i \in 1..Len(Head(tree).tags) |->
             [acct |-> Head(tree).acct, key |-> Head(tree).tags[i][1], value |-> Head(tree).tags[i][2]]]
         \o Triples(Tail(tree))

KeyIndex(m, k) ==
    IF \E i \in 1..Len(m) : m[i].key = k THEN CHOOSE i \in 1..Len(m) : m[i].key = k ELSE 0

ValIndex(vals, v) ==
    IF \E i \in 1..Len(vals) : vals[i].value = v THEN CHOOSE i \in 1..Len(vals) : vals[i].value = v ELSE 0

\* cost_categories_map[k][v].append(a) on the inner defaultdict(list) (l.150)
ValAppend(vals, v, a) ==
    LET i == ValIndex(vals, v)
    IN  IF i = 0 THEN Append(vals, [value |-> v, accts |-> <<a>>])
        ELSE [vals EXCEPT ![i].accts = Append(@, a)]

MapAppendNoLookup(m, k, v, a) == Append(m, [key |-> k, vals |-> ValAppend(<<>>, v, a)])

MapAppend(m, k, v, a) ==
    LET i == KeyIndex(m, k)
    IN  IF i = 0 THEN Append(m, [key |-> k, vals |-> ValAppend(<<>>, v, a)])
        ELSE [m EXCEPT ![i].vals = ValAppend(@, v, a)]

RECURSIVE GroupTags(_, _)
GroupTags(triples, m) ==
    IF triples = <<>> THEN m
    ELSE GroupTags(Tail(triples), MapAppend(m, Head(triples).key, Head(triples).value, Head(triples).acct))

cost_categories_map(tree) == GroupTags(Triples(tree), <<>>)

\* json.dumps / json.loads of one rule dictionary (l.157, l.165)
json_dumps_rule(value, values) == <<"REGULAR", value, "LINKED_ACCOUNT", values, "EQUALS">>

json_loads_rule(s) ==
    [Type |-> s[1], Value |-> s[2],
     Rule |-> [Dimensions |-> [Key |-> s[3], Values |-> s[4], MatchOptions |-> <<s[5]>>]]]

\* ccat_rule.copy() is shallow: the 'Rule' dictionary is one object shared by
\* the rule of every tag key.  The heap of the second loop is the pair
\* (Value of the current tag's dictionary, Values of the shared 'Rule').
\* EmitRule is what cc_defs[provided_tag].append(json.dumps(...)) stores at
\* the time of the call, given the heap then (cur) and the heap at the end of
\* the loop over this tag's values and of the whole build (fin).
EmitRuleByReference(curValue, curValues, finValue, finValues) == json_dumps_rule(finValue, finValues)

EmitRule(curValue, curValues, finValue, finValues) == json_dumps_rule(curValue, curValues)

FinalSharedValues(m) ==
    IF m = <<>> THEN <<>> ELSE m[Len(m)].vals[Len(m[Len(m)].vals)].accts

build_cc_defs(tree) ==
    LET m == cost_categories_map(tree)
    IN  [i \in 1..Len(m) |->
            [name  |-> m[i].key,
             rules |-> [j \in 1..Len(m[i].vals) |->
                          EmitRule(m[i].vals[j].value, m[i].vals[j].accts,
                                   m[i].vals[Len(m[i].vals)].value, FinalSharedValues(m))]]]

\* rules = [json.loads(rule) for rule in cc_def] (l.163-165)
LoadRules(cc_def) == [j \in 1..Len(cc_def) |-> json_loads_rule(cc_def[j])]

\* ------------------------------------------------------------------ state
VARIABLES
    org_account_tags,     \* AWS Organizations: account id -> its tags, a sequence of <<key, value>>
    org_tree,             \* AWS Organizations: unit id -> [parent, name]
    ssm,                  \* SSM parameter store: parameter path -> value
    ce,                   \* Cost Explorer: sequence of [Name, Arn, ResourceTags, Rules]
    pc,                   \* position of the running lambda_handler
    RequestType,          \* event.get('RequestType') of the running invocation
    tags_tree,            \* local of lambda_handler (l.236)
    org_units,            \* local of lambda_handler (l.253-254)
    cost_categories_arns, \* local of lambda_handler (l.237)
    cc_defs,              \* local of ce_build_cost_category_definitions (l.133)
    pos,                  \* position of the loop of l.162 in cc_defs
    decision,             \* branch taken by the if of l.256
    fresh,                \* hash_dict of tags_tree and of org_units, as l.257-258 compute them
    calls,                \* remote calls issued by the running invocation, in order
    ssm0,                 \* parameter store when the running invocation started
    ce0,                  \* cost categories when the running invocation started
    prev,                 \* summary of the previous invocation
    changes               \* number of changes made to the organization

envVars == <<org_account_tags, org_tree>>
localVars == <<tags_tree, org_units, cost_categories_arns, cc_defs, pos, decision, fresh>>
vars == <<org_account_tags, org_tree, ssm, ce, pc, RequestType, tags_tree, org_units,
          cost_categories_arns, cc_defs, pos, decision, fresh, calls, ssm0, ce0, prev, changes>>

RequestTypes == {"Create", "Update", "Delete", "Scheduled"}

NoArns == [n \in {} |-> 0]

OwnershipMarker == <<"aws-finops-managed", "true">>

Call(op, name, arn, ok) == [op |-> op, name |-> name, arn |-> arn, ok |-> ok]

WriteOps == {"create_cost_category_definition", "update_cost_category_definition", "put_parameter"}
PublishOps == {"create_cost_category_definition", "update_cost_category_definition"}
ReconcileOps == {"org_enumerate", "get_parameter", "list_cost_category_definitions"} \cup WriteOps

\* unit o is under the root: following parents from o leads to the root
\* within n steps
RECURSIVE ReachesRoot(_, _, _)
ReachesRoot(tree, o, n) ==
    IF tree[o].parent = RootId THEN TRUE
    ELSE IF n = 0 \/ tree[o].parent \notin DOMAIN tree THEN FALSE
    ELSE ReachesRoot(tree, tree[o].parent, n - 1)

\* ------------------------------------------------------------ environment
\* a cost category somebody else created, without the ownership marker
ForeignCategory(name) == [Name |-> name, Arn |-> 1, ResourceTags |-> {<<"owner", "finance">>}, Rules |-> <<>>]

\* what a behaviour starts from: the empty organization; accounts without
\* tags, one unit and a cost category of somebody else; one account with one
\* tag and one unit
OneUnit == [o \in {MaxOu} |-> [parent |-> RootId, name |-> "n1"]]

InitOrgs ==
    {[tags |-> [a \in {} |-> <<>>], tree |-> [o \in {} |-> 0], ce |-> <<>>],
     [tags |-> [a \in Accounts |-> <<>>], tree |-> OneUnit, ce |-> <<ForeignCategory("team")>>],
     [tags |-> [a \in Accounts |-> IF a = MaxAcct THEN << <<"env", "a">> >> ELSE <<>>], tree |-> OneUnit,
      ce |-> <<>>]}

\* what the claims about two consecutive runs need of the first one: how it
\* ended and, when it completed or failed in a create/update, the organization
\* it ran over
\* the two operands hash_dict(tags_tree) and hash_dict(org_units) of l.257-258
Fingerprints(tree, units) == [acc |-> hash_dict_map(tree), ous |-> hash_dict_list(units)]

NoFingerprints == [acc |-> Sentinel, ous |-> Sentinel]

NoPrev == [outcome |-> "none", publishFailed |-> FALSE, fresh |-> FALSE,
           tags |-> [a \in {} |-> <<>>], tree |-> [o \in {} |-> 0]]

Init ==
    /\ \E org \in InitOrgs : org_account_tags = org.tags /\ org_tree = org.tree /\ ce = org.ce
    /\ ssm = [p \in {} |-> Sentinel]
    /\ pc = "idle"
    /\ RequestType = "Scheduled"
    /\ tags_tree = <<>>
    /\ org_units = <<>>
    /\ cost_categories_arns = NoArns
    /\ cc_defs = <<>>
    /\ pos = 1
    /\ decision = "none"
    /\ fresh = NoFingerprints
    /\ calls = <<>>
    /\ ssm0 = ssm
    /\ ce0 = ce
    /\ prev = NoPrev
    /\ changes = 0

runVars == <<ssm, ce, pc, RequestType, tags_tree, org_units, cost_categories_arns, cc_defs, pos,
             decision, fresh, calls, ssm0, ce0, prev>>

HasKey(tags, k) == \E i \in 1..Len(tags) : tags[i][1] = k

SetTag(tags, k, v) ==
    IF HasKey(tags, k)
    THEN [i \in 1..Len(tags) |-> IF tags[i][1] = k THEN <<k, v>> ELSE tags[i]]
    ELSE Append(tags, <<k, v>>)

EnvStep == pc = "idle" /\ changes < MaxChanges /\ changes' = changes + 1 /\ UNCHANGED runVars

AddAccount ==
    /\ EnvStep
    /\ \E a \in Accounts \ DOMAIN org_account_tags :
          org_account_tags' = [x \in DOMAIN org_account_tags \cup {a} |->
                                  IF x = a THEN <<>> ELSE org_account_tags[x]]
    /\ UNCHANGED org_tree

TagAccount ==
    /\ EnvStep
    /\ \E a \in DOMAIN org_account_tags, k \in TagKeys : \E v \in ValuesOf(k) :
          /\ <<k, v>> \notin Range(org_account_tags[a])
          /\ org_account_tags' = [org_account_tags EXCEPT ![a] = SetTag(@, k, v)]
    /\ UNCHANGED org_tree

UntagAccount ==
    /\ EnvStep
    /\ \E a \in DOMAIN org_account_tags, k \in TagKeys :
          /\ HasKey(org_account_tags[a], k)
          /\ org_account_tags' = [org_account_tags EXCEPT ![a] = SelectSeq(@, LAMBDA t : t[1] # k)]
    /\ UNCHANGED org_tree

AddOu ==
    /\ EnvStep
    /\ \E o \in OuIds \ DOMAIN org_tree, p \in {RootId} \cup DOMAIN org_tree :
          org_tree' = [x \in DOMAIN org_tree \cup {o} |->
                          IF x = o THEN [parent |-> p, name |-> "n1"] ELSE org_tree[x]]
    /\ UNCHANGED org_account_tags

RemoveOu ==
    /\ EnvStep
    /\ \E o \in DOMAIN org_tree :
          /\ \A c \in DOMAIN org_tree : org_tree[c].parent # o
          /\ org_tree' = [x \in DOMAIN org_tree \ {o} |-> org_tree[x]]
    /\ UNCHANGED org_account_tags

RenameOu ==
    /\ EnvStep
    /\ \E o \in DOMAIN org_tree, n \in OuNames :
          /\ org_tree[o].name # n
          /\ org_tree' = [org_tree EXCEPT ![o].name = n]
    /\ UNCHANGED org_account_tags

\* -------------------------------------------- Hierarchy collector (l.34-85)
\* page['OrganizationalUnits'] of list_organizational_units_for_parent: the
\* units whose parent is 'parent', in the order the service lists them, which
\* is the order they have in 'order', a sequence of all the units
ListChildren(tree, parent, order) == SelectSeq(order, LAMBDA o : tree[o].parent = parent)

RECURSIVE recursive_ou_search(_, _, _, _)
RECURSIVE SearchChildren(_, _, _, _)
SearchChildren(tree, kids, found, order) ==
    IF kids = <<>> THEN found
    ELSE SearchChildren(tree, Tail(kids),
                        recursive_ou_search(tree, Head(kids), found \cup {Head(kids)}, order), order)

recursive_ou_searchChildrenOnly(tree, parent, found, order) ==
    found \cup Range(ListChildren(tree, parent, order))

recursive_ou_search(tree, parent, found, order) ==
    SearchChildren(tree, ListChildren(tree, parent, order), found, order)

org_list_ousDropped(tree, order) == {}

org_list_ous(tree, order) == recursive_ou_search(tree, RootId, {}, order)

\* tags_tree[account].append(tags) on the defaultdict(list) (l.85)
TreeAppend(tree, account, tag) ==
    IF \E i \in 1..Len(tree) : tree[i].acct = account
    THEN [i \in 1..Len(tree) |-> IF tree[i].acct = account
                                  THEN [tree[i] EXCEPT !.tags = Append(@, tag)] ELSE tree[i]]
    ELSE Append(tree, [acct |-> account, tags |-> <<tag>>])

AllowedNoFilter(key) == TRUE

Allowed(key) == key \in CATEGORIES_TAGS

RECURSIVE org_fetch_tags_for_account(_, _, _)
org_fetch_tags_for_account(account, tags, tree) ==
    IF tags = <<>> THEN tree
    ELSE org_fetch_tags_for_account(account, Tail(tags),
             IF Allowed(Head(tags)[1]) THEN TreeAppend(tree, account, Head(tags)) ELSE tree)

RECURSIVE FetchAll(_, _, _)
FetchAll(org_accounts, org, tree) ==
    IF org_accounts = <<>> THEN tree
    ELSE FetchAll(Tail(org_accounts), org,
                  org_fetch_tags_for_account(Head(org_accounts), org[Head(org_accounts)], tree))

\* ------------------------------------------------ digest store (l.100-126)
ssm_get_digest(store, param_path) ==
    IF param_path \in DOMAIN store THEN store[param_path] ELSE Sentinel

ssm_save_digest(store, param_path, digest) ==
    [p \in DOMAIN store \cup {param_path} |-> IF p = param_path THEN digest ELSE store[p]]

\* ------------------------------------------- ce_list_cost_categories (l.21-31)
ManagedAny(ccat) == TRUE

Managed(ccat) == OwnershipMarker \in ccat.ResourceTags

ce_list_cost_categories(defs) ==
    LET owned == {i \in 1..Len(defs) : Managed(defs[i])}
    IN  [n \in {defs[i].Name : i \in owned} |->
            defs[CHOOSE i \in owned : defs[i].Name = n].Arn]

\* ------------------------------------------------------------ lambda_handler
LogCall(op, name, arn, ok) == calls' = Append(calls, Call(op, name, arn, ok))

Abort == pc' = "aborted"

\* the handler is invoked with an event (l.226); l.229 and l.232 choose the
\* first step.  (The call of l.270 passes a string for the event: event.get
\* raises before any remote call, so it is no run.)
InvokeAckOnCreateOnly(types) ==
    /\ pc = "idle"
    /\ \E rt \in types :
          /\ RequestType' = rt
          /\ pc' = IF rt = "Create" THEN "l230"
                   ELSE IF rt = "Delete" THEN "l233" ELSE "l246"
    /\ calls' = <<>>
    /\ ssm0' = ssm
    /\ ce0' = ce
    /\ UNCHANGED <<envVars, ssm, ce, localVars, prev, changes>>

Invoke(types) ==
    /\ pc = "idle"
    /\ \E rt \in types :
          /\ RequestType' = rt
          /\ pc' = IF rt \in {"Create", "Update"} THEN "l230"
                   ELSE IF rt = "Delete" THEN "l233" ELSE "l246"
    /\ calls' = <<>>
    /\ ssm0' = ssm
    /\ ce0' = ce
    /\ UNCHANGED <<envVars, ssm, ce, localVars, prev, changes>>

\* the scheduled invocation: the event has no RequestType
InvokeScheduled == Invoke({"Scheduled"})

\* the invocation by CloudFormation for the custom resource
InvokeCfn == Invoke({"Create", "Update", "Delete"})

SendResponseNoReturn ==
    /\ pc \in {"l230", "l233"}
    /\ LogCall("send_response", "SUCCESS", 0, TRUE)
    /\ pc' = "l246"
    /\ UNCHANGED <<envVars, ssm, ce, RequestType, localVars, ssm0, ce0, prev, changes>>

\* send_response(event, context, "SUCCESS") returns (l.230, l.233)
SendResponse ==
    /\ pc \in {"l230", "l233"}
    /\ LogCall("send_response", "SUCCESS", 0, TRUE)
    /\ pc' = IF pc = "l233" THEN "done" ELSE "l246"
    /\ UNCHANGED <<envVars, ssm, ce, RequestType, localVars, ssm0, ce0, prev, changes>>

SendResponseFailSwallowed ==
    /\ pc \in {"l230", "l233"}
    /\ LogCall("send_response", "SUCCESS", 0, FALSE)
    /\ pc' = IF pc = "l233" THEN "done" ELSE "l246"
    /\ UNCHANGED <<envVars, ssm, ce, RequestType, localVars, ssm0, ce0, prev, changes>>

\* urlopen raises URLError: send_response raises (l.221-222)
SendResponseFail ==
    /\ pc \in {"l230", "l233"}
    /\ LogCall("send_response", "SUCCESS", 0, FALSE)
    /\ Abort
    /\ UNCHANGED <<envVars, ssm, ce, RequestType, localVars, ssm0, ce0, prev, changes>>

\* l.246-254, given the order in which list_accounts gives the accounts, the
\* order in which the units are listed and the order in which list(org_ous)
\* gives the elements of the set
EnumerateWith(org_accounts, order, org_units_list) ==
    /\ tags_tree' = FetchAll(org_accounts, org_account_tags, <<>>)
    /\ org_units' = sort(org_units_list)
    /\ fresh' = Fingerprints(tags_tree', org_units')
    /\ LogCall("org_enumerate", "", 0, TRUE)
    /\ pc' = "l257"
    /\ UNCHANGED <<envVars, ssm, ce, RequestType, cost_categories_arns, cc_defs, pos, decision,
                   ssm0, ce0, prev, changes>>

\* the accounts in any order; the units listed in ascending order and the set
\* given in descending order (EnumerateAnyOrder takes every order of the two)
Enumerate ==
    /\ pc = "l246"
    /\ \E org_accounts \in Perms(DOMAIN org_account_tags) :
          EnumerateWith(org_accounts, Ascending(DOMAIN org_tree),
                        Reverse(Ascending(org_list_ous(org_tree, Ascending(DOMAIN org_tree)))))

EnumerateAnyOrder ==
    /\ pc = "l246"
    /\ \E org_accounts \in Perms(DOMAIN org_account_tags), order \in Perms(DOMAIN org_tree) :
          \E org_units_list \in Perms(org_list_ous(org_tree, order)) :
              EnumerateWith(org_accounts, order, org_units_list)

EnumerateFail ==
    /\ pc = "l246"
    /\ LogCall("org_enumerate", "", 0, FALSE)
    /\ Abort
    /\ UNCHANGED <<envVars, ssm, ce, RequestType, localVars, ssm0, ce0, prev, changes>>

\* the two operands of the condition of l.256-259
AccountsUpToDate(tree, store) == hash_dict_map(tree) = ssm_get_digest(store, SSM_PARAM_ORG_ACC_DIGEST)

UnitsUpToDateWrongPath(units, store) == hash_dict_list(units) = ssm_get_digest(store, SSM_PARAM_ORG_ACC_DIGEST)

UnitsUpToDateIgnored(units, store) == TRUE

UnitsUpToDate(units, store) == hash_dict_list(units) = ssm_get_digest(store, SSM_PARAM_ORG_OUS_DIGEST)

\* l.257: hash_dict(tags_tree) == ssm_get_digest(SSM_PARAM_ORG_ACC_DIGEST)
CompareAccounts ==
    /\ pc = "l257"
    /\ LogCall("get_parameter", SSM_PARAM_ORG_ACC_DIGEST, 0, TRUE)
    /\ IF AccountsUpToDate(tags_tree, ssm)
       THEN pc' = "l258" /\ UNCHANGED decision
       ELSE pc' = "l262" /\ decision' = "rebuild"
    /\ UNCHANGED <<envVars, ssm, ce, RequestType, tags_tree, org_units, cost_categories_arns,
                   cc_defs, pos, fresh, ssm0, ce0, prev, changes>>

\* l.258: hash_dict(org_units) == ssm_get_digest(SSM_PARAM_ORG_OUS_DIGEST)
CompareUnits ==
    /\ pc = "l258"
    /\ LogCall("get_parameter", SSM_PARAM_ORG_OUS_DIGEST, 0, TRUE)
    /\ IF UnitsUpToDate(org_units, ssm)
       THEN pc' = "done" /\ decision' = "uptodate"
       ELSE pc' = "l262" /\ decision' = "rebuild"
    /\ UNCHANGED <<envVars, ssm, ce, RequestType, tags_tree, org_units, cost_categories_arns,
                   cc_defs, pos, fresh, ssm0, ce0, prev, changes>>

\* the error codes a ClientError of get_parameter carries
ClientErrorCodes == {"ParameterNotFound", "AccessDeniedException", "InternalServerError"}

\* the except clause of l.122-124: ParameterNotFound returns '-1'; any other
\* ClientError leaves the clause without a return, and l.126 then reads the
\* unassigned local 'response', which raises UnboundLocalError
ssm_get_digest_except(code) == IF code = "ParameterNotFound" THEN "return" ELSE "UnboundLocalError"

GetDigestFailAsMissing ==
    /\ pc \in {"l257", "l258"}
    /\ LogCall("get_parameter",
               IF pc = "l257" THEN SSM_PARAM_ORG_ACC_DIGEST ELSE SSM_PARAM_ORG_OUS_DIGEST, 0, FALSE)
    /\ pc' = "l262"
    /\ decision' = "rebuild"
    /\ UNCHANGED <<envVars, ssm, ce, RequestType, tags_tree, org_units, cost_categories_arns,
                   cc_defs, pos, fresh, ssm0, ce0, prev, changes>>

\* get_parameter fails with an error other than ParameterNotFound: ssm_get_digest
\* raises, and lambda_handler has no handler for it
GetDigestFail ==
    /\ pc \in {"l257", "l258"}
    /\ \E code \in ClientErrorCodes : ssm_get_digest_except(code) # "return"
    /\ LogCall("get_parameter",
               IF pc = "l257" THEN SSM_PARAM_ORG_ACC_DIGEST ELSE SSM_PARAM_ORG_OUS_DIGEST, 0, FALSE)
    /\ Abort
    /\ UNCHANGED <<envVars, ssm, ce, RequestType, localVars, ssm0, ce0, prev, changes>>

\* l.262
ListCostCategories ==
    /\ pc = "l262"
    /\ cost_categories_arns' = ce_list_cost_categories(ce)
    /\ LogCall("list_cost_category_definitions", "", 0, TRUE)
    /\ pc' = "l133"
    /\ UNCHANGED <<envVars, ssm, ce, RequestType, tags_tree, org_units, cc_defs, pos, decision,
                   fresh, ssm0, ce0, prev, changes>>

ListCostCategoriesFail ==
    /\ pc = "l262"
    /\ LogCall("list_cost_category_definitions", "", 0, FALSE)
    /\ Abort
    /\ UNCHANGED <<envVars, ssm, ce, RequestType, localVars, ssm0, ce0, prev, changes>>

\* l.133-157: the definitions are built, the loop of l.162 starts
AfterPublish(defs, p) == IF p > Len(defs) THEN "l265" ELSE "l162"

BuildDefinitionsSaveFirst ==
    /\ pc = "l133"
    /\ cc_defs' = build_cc_defs(tags_tree)
    /\ pos' = 1
    /\ pc' = AfterPublish(cc_defs', 1)
    /\ ssm' = ssm_save_digest(ssm, SSM_PARAM_ORG_ACC_DIGEST, hash_dict_map(tags_tree))
    /\ LogCall("put_parameter", SSM_PARAM_ORG_ACC_DIGEST, 0, TRUE)
    /\ UNCHANGED <<envVars, ce, RequestType, tags_tree, org_units, cost_categories_arns,
                   decision, fresh, ssm0, ce0, prev, changes>>

BuildDefinitionsPruning ==
    /\ pc = "l133"
    /\ cc_defs' = build_cc_defs(tags_tree)
    /\ pos' = 1
    /\ pc' = AfterPublish(cc_defs', 1)
    /\ ce' = SelectSeq(ce, LAMBDA c : c.Name \notin DOMAIN cost_categories_arns
                                      \/ \E d \in 1..Len(cc_defs') : cc_defs'[d].name = c.Name)
    /\ UNCHANGED <<envVars, ssm, RequestType, tags_tree, org_units, cost_categories_arns,
                   decision, fresh, calls, ssm0, ce0, prev, changes>>

BuildDefinitions ==
    /\ pc = "l133"
    /\ cc_defs' = build_cc_defs(tags_tree)
    /\ pos' = 1
    /\ pc' = AfterPublish(cc_defs', 1)
    /\ UNCHANGED <<envVars, ssm, ce, RequestType, tags_tree, org_units, cost_categories_arns,
                   decision, fresh, calls, ssm0, ce0, prev, changes>>

NameExists(defs, name) == \E i \in 1..Len(defs) : defs[i].Name = name

\* l.166: if cc_name in cost_categories_arns
IsUpdate(arns, name) == name \in DOMAIN arns

PublishOneMerging ==
    /\ pc = "l162"
    /\ LET cc_name == cc_defs[pos].name
           rules == LoadRules(cc_defs[pos].rules)
       IN  IF IsUpdate(cost_categories_arns, cc_name)
           THEN /\ ce' = [i \in 1..Len(ce) |->
                             IF ce[i].Arn = cost_categories_arns[cc_name]
                             THEN [ce[i] EXCEPT !.Rules = @ \o rules] ELSE ce[i]]
                /\ LogCall("update_cost_category_definition", cc_name, cost_categories_arns[cc_name], TRUE)
           ELSE /\ ~NameExists(ce, cc_name)
                /\ ce' = Append(ce, [Name |-> cc_name, Arn |-> Len(ce) + 1,
                                     ResourceTags |-> {OwnershipMarker}, Rules |-> rules])
                /\ LogCall("create_cost_category_definition", cc_name, 0, TRUE)
    /\ pos' = pos + 1
    /\ pc' = AfterPublish(cc_defs, pos + 1)
    /\ UNCHANGED <<envVars, ssm, RequestType, tags_tree, org_units, cost_categories_arns, cc_defs,
                   decision, fresh, ssm0, ce0, prev, changes>>

\* l.162-186, one iteration whose call returns
PublishOne ==
    /\ pc = "l162"
    /\ LET cc_name == cc_defs[pos].name
           rules == LoadRules(cc_defs[pos].rules)
       IN  IF IsUpdate(cost_categories_arns, cc_name)
           THEN /\ ce' = [i \in 1..Len(ce) |->
                             IF ce[i].Arn = cost_categories_arns[cc_name]
                             THEN [ce[i] EXCEPT !.Rules = rules] ELSE ce[i]]
                /\ LogCall("update_cost_category_definition", cc_name, cost_categories_arns[cc_name], TRUE)
           ELSE /\ ~NameExists(ce, cc_name)
                /\ ce' = Append(ce, [Name |-> cc_name, Arn |-> Len(ce) + 1,
                                     ResourceTags |-> {OwnershipMarker}, Rules |-> rules])
                /\ LogCall("create_cost_category_definition", cc_name, 0, TRUE)
    /\ pos' = pos + 1
    /\ pc' = AfterPublish(cc_defs, pos + 1)
    /\ UNCHANGED <<envVars, ssm, RequestType, tags_tree, org_units, cost_categories_arns, cc_defs,
                   decision, fresh, ssm0, ce0, prev, changes>>

PublishFailContinue ==
    /\ pc = "l162"
    /\ LET cc_name == cc_defs[pos].name
       IN  IF IsUpdate(cost_categories_arns, cc_name)
           THEN LogCall("update_cost_category_definition", cc_name, cost_categories_arns[cc_name], FALSE)
           ELSE LogCall("create_cost_category_definition", cc_name, 0, FALSE)
    /\ pos' = pos + 1
    /\ pc' = AfterPublish(cc_defs, pos + 1)
    /\ UNCHANGED <<envVars, ssm, ce, RequestType, tags_tree, org_units, cost_categories_arns, cc_defs,
                   decision, fresh, ssm0, ce0, prev, changes>>

\* l.162-186, one iteration whose call raises
PublishFail ==
    /\ pc = "l162"
    /\ LET cc_name == cc_defs[pos].name
       IN  IF IsUpdate(cost_categories_arns, cc_name)
           THEN LogCall("update_cost_category_definition", cc_name, cost_categories_arns[cc_name], FALSE)
           ELSE LogCall("create_cost_category_definition", cc_name, 0, FALSE)
    /\ Abort
    /\ UNCHANGED <<envVars, ssm, ce, RequestType, localVars, ssm0, ce0, prev, changes>>

\* l.265
SaveAccountsDigest ==
    /\ pc = "l265"
    /\ ssm' = ssm_save_digest(ssm, SSM_PARAM_ORG_ACC_DIGEST, hash_dict_map(tags_tree))
    /\ LogCall("put_parameter", SSM_PARAM_ORG_ACC_DIGEST, 0, TRUE)
    /\ pc' = "l266"
    /\ UNCHANGED <<envVars, ce, RequestType, localVars, ssm0, ce0, prev, changes>>

SaveUnitsDigestWrongPath ==
    /\ pc = "l266"
    /\ ssm' = ssm_save_digest(ssm, SSM_PARAM_ORG_ACC_DIGEST, hash_dict_list(org_units))
    /\ LogCall("put_parameter", SSM_PARAM_ORG_ACC_DIGEST, 0, TRUE)
    /\ pc' = "done"
    /\ UNCHANGED <<envVars, ce, RequestType, localVars, ssm0, ce0, prev, changes>>

\* l.266
SaveUnitsDigest ==
    /\ pc = "l266"
    /\ ssm' = ssm_save_digest(ssm, SSM_PARAM_ORG_OUS_DIGEST, hash_dict_list(org_units))
    /\ LogCall("put_parameter", SSM_PARAM_ORG_OUS_DIGEST, 0, TRUE)
    /\ pc' = "done"
    /\ UNCHANGED <<envVars, ce, RequestType, localVars, ssm0, ce0, prev, changes>>

SaveDigestFail ==
    /\ pc \in {"l265", "l266"}
    /\ LogCall("put_parameter",
               IF pc = "l265" THEN SSM_PARAM_ORG_ACC_DIGEST ELSE SSM_PARAM_ORG_OUS_DIGEST, 0, FALSE)
    /\ Abort
    /\ UNCHANGED <<envVars, ssm, ce, RequestType, localVars, ssm0, ce0, prev, changes>>

PublishFailed(log) == log # <<>> /\ log[Len(log)].op \in PublishOps /\ ~log[Len(log)].ok

\* the invocation is over: its locals are gone
Return ==
    /\ pc \in {"done", "aborted"}
    /\ prev' = IF pc = "done" \/ PublishFailed(calls)
               THEN [outcome |-> pc, publishFailed |-> PublishFailed(calls),
                     fresh |-> (pc = "done" /\ DOMAIN ssm0 = {}),
                     tags |-> org_account_tags, tree |-> org_tree]
               ELSE NoPrev
    /\ pc' = "idle"
    /\ tags_tree' = <<>>
    /\ org_units' = <<>>
    /\ cost_categories_arns' = NoArns
    /\ cc_defs' = <<>>
    /\ pos' = 1
    /\ decision' = "none"
    /\ fresh' = NoFingerprints
    /\ calls' = <<>>
    /\ RequestType' = "Scheduled"
    /\ ssm0' = ssm
    /\ ce0' = ce
    /\ UNCHANGED <<envVars, ssm, ce, changes>>

HandlerSteps ==
    \/ Enumerate \/ EnumerateFail
    \/ CompareAccounts \/ CompareUnits \/ GetDigestFail
    \/ ListCostCategories \/ ListCostCategoriesFail \/ BuildDefinitions
    \/ PublishOne \/ PublishFail
    \/ SaveAccountsDigest \/ SaveUnitsDigest \/ SaveDigestFail \/ Return

\* scheduled runs over a changing organization
Next ==
    \/ AddAccount \/ TagAccount \/ UntagAccount \/ AddOu \/ RemoveOu \/ RenameOu
    \/ InvokeScheduled
    \/ HandlerSteps

Spec == Init /\ [][Next]_vars

\* runs started by CloudFormation over an organization that does not change
NextCfn ==
    \/ InvokeCfn \/ SendResponse \/ SendResponseFail
    \/ HandlerSteps

SpecCfn == Init /\ [][NextCfn]_vars

\* the Rule Builder alone, over every tags_tree of at most MaxAcct accounts
AllowedTags == {<<k, v>> : k \in CATEGORIES_TAGS, v \in TagValues}

TagSeqs == {s \in UNION {[1..n -> AllowedTags] : n \in 0..Cardinality(CATEGORIES_TAGS)} :
               \A i, j \in 1..Len(s) : s[i][1] = s[j][1] => i = j}

RBInputs == {FetchAll(order, f, <<>>) : order \in Perms(Accounts), f \in [Accounts -> TagSeqs]}

InitRB ==
    /\ org_account_tags = [a \in {} |-> <<>>]
    /\ org_tree = [o \in {} |-> 0]
    /\ ssm = [p \in {} |-> Sentinel]
    /\ ce = <<>>
    /\ pc = "l133"
    /\ RequestType = "Scheduled"
    /\ tags_tree \in RBInputs
    /\ org_units = <<>>
    /\ cost_categories_arns = NoArns
    /\ cc_defs = <<>>
    /\ pos = 1
    /\ decision = "rebuild"
    /\ fresh = Fingerprints(tags_tree, org_units)
    /\ calls = <<>>
    /\ ssm0 = ssm
    /\ ce0 = ce
    /\ prev = NoPrev
    /\ changes = 0

NextRB == BuildDefinitions

SpecRB == InitRB /\ [][NextRB]_vars

\* scheduled runs over an organization in which the value of a tag an account
\* carries is changed, at most MaxRetags times
ChangeTagValue ==
    /\ pc = "idle"
    /\ changes < MaxRetags
    /\ changes' = changes + 1
    /\ \E a \in DOMAIN org_account_tags, k \in CATEGORIES_TAGS, v \in TagValues :
          /\ HasKey(org_account_tags[a], k)
          /\ <<k, v>> \notin Range(org_account_tags[a])
          /\ org_account_tags' = [org_account_tags EXCEPT ![a] = SetTag(@, k, v)]
    /\ UNCHANGED <<org_tree, runVars>>

InitRetag == Init /\ \E a \in DOMAIN org_account_tags : org_account_tags[a] # <<>>

NextRetag ==
    \/ ChangeTagValue
    \/ InvokeScheduled
    \/ HandlerSteps

SpecRetag == InitRetag /\ [][NextRetag]_vars

\* hash_dict alone, as l.246-258 apply it: every assignment of allow-listed
\* tags to the accounts, a flat tree of units, every order of listing
FlatTree(units) == [o \in units |-> [parent |-> RootId, name |-> "n1"]]

InitHD ==
    /\ org_account_tags \in [Accounts -> TagSeqs]
    /\ org_tree \in {FlatTree({}), FlatTree(1..(MaxOu + 1))}
    /\ ssm = [p \in {} |-> Sentinel]
    /\ ce = <<>>
    /\ pc = "l246"
    /\ RequestType = "Scheduled"
    /\ tags_tree = <<>>
    /\ org_units = <<>>
    /\ cost_categories_arns = NoArns
    /\ cc_defs = <<>>
    /\ pos = 1
    /\ decision = "none"
    /\ fresh = NoFingerprints
    /\ calls = <<>>
    /\ ssm0 = ssm
    /\ ce0 = ce
    /\ prev = NoPrev
    /\ changes = 0

NextHD == Enumerate

SpecHD == InitHD /\ [][NextHD]_vars

\* unit discovery alone, as l.246-254 apply it: every tree of at most
\* MaxOu + 2 units under the root, with no account or with untagged accounts
Trees(units) ==
    UNION {{t \in [S -> [parent : {RootId} \cup S, name : {"n1"}]] :
               \A o \in S : ReachesRoot(t, o, Cardinality(S))} : S \in SUBSET units}

InitOU ==
    /\ org_account_tags \in {[a \in {} |-> <<>>], [a \in Accounts |-> <<>>]}
    /\ org_tree \in Trees(1..(MaxOu + 2))
    /\ ssm = [p \in {} |-> Sentinel]
    /\ ce = <<>>
    /\ pc = "l246"
    /\ RequestType = "Scheduled"
    /\ tags_tree = <<>>
    /\ org_units = <<>>
    /\ cost_categories_arns = NoArns
    /\ cc_defs = <<>>
    /\ pos = 1
    /\ decision = "none"
    /\ fresh = NoFingerprints
    /\ calls = <<>>
    /\ ssm0 = ssm
    /\ ce0 = ce
    /\ prev = NoPrev
    /\ changes = 0

NextOU == EnumerateAnyOrder

SpecOU == InitOU /\ [][NextOU]_vars

\* ================================================================ claims
Running == pc # "idle"

\* the run has enumerated the organization: tags_tree and org_units are set
Enumerated == pc \in {"l257", "l258", "l262", "l133", "l162", "l265", "l266", "done", "aborted"}
              /\ \E i \in 1..Len(calls) : calls[i].op = "org_enumerate" /\ calls[i].ok

CallsOf(ops) == SelectSeq(calls, LAMBDA c : c.op \in ops)

NoWriteIssued == CallsOf(WriteOps) = <<>> /\ ssm = ssm0 /\ ce = ce0

SameOrgAsPrev == prev.tags = org_account_tags /\ prev.tree = org_tree

\* the fingerprints of the run against the digests stored when it started
FreshAccounts == fresh.acc
FreshUnits == fresh.ous
StoredAccounts == ssm_get_digest(ssm0, SSM_PARAM_ORG_ACC_DIGEST)
StoredUnits == ssm_get_digest(ssm0, SSM_PARAM_ORG_OUS_DIGEST)

\* every definition of the builder published, one call each, in order, all returned
AllPublished ==
    LET pub == CallsOf(PublishOps)
        defs == build_cc_defs(tags_tree)
    IN  /\ Len(pub) = Len(defs)
        /\ \A i \in 1..Len(pub) : pub[i].name = defs[i].name /\ pub[i].ok

\* C1: skip law - a run whose fresh accounts fingerprint equals the stored
\* accounts digest and whose fresh units fingerprint equals the stored units
\* digest issues no create, no update and no digest put, and leaves the
\* definitions and the parameter store as they were.
C1_SkipLaw ==
    (Enumerated /\ FreshAccounts = StoredAccounts /\ FreshUnits = StoredUnits)
        => /\ NoWriteIssued
           /\ pc \in {"l257", "l258", "done", "aborted"}
           /\ (pc = "done" => decision = "uptodate")

C1_Witness ==
    /\ pc = "done" /\ decision = "uptodate" /\ tags_tree # <<>> /\ org_units # <<>>
    /\ FreshAccounts = StoredAccounts /\ FreshUnits = StoredUnits

C2_PutPositions ==
    \A i \in 1..Len(calls) :
        calls[i].op = "put_parameter" =>
            /\ \A j \in 1..Len(calls) : calls[j].op \in PublishOps => j < i /\ calls[j].ok
            /\ AllPublished
            /\ \A j \in 1..Len(calls) :
                   (calls[j].op = "put_parameter" /\ calls[j].name = calls[i].name) => j = i

C2_StoreStep ==
    ssm' # ssm =>
        /\ calls' = Append(calls, calls'[Len(calls')])
        /\ calls'[Len(calls')].op = "put_parameter"
        /\ calls'[Len(calls')].ok
        /\ \A p \in DOMAIN ssm : p # calls'[Len(calls')].name => (p \in DOMAIN ssm' /\ ssm'[p] = ssm[p])

\* C2: a digest is put only after every create/update call of the run's
\* publish cycle has returned successfully, each of the two digests is put at
\* most once per run, and the parameter store changes only by such a put.
C2_DigestWrittenLast == []C2_PutPositions /\ [][C2_StoreStep]_vars

C2_Witness ==
    /\ pc = "done" /\ Len(CallsOf({"put_parameter"})) = 2 /\ Len(CallsOf(PublishOps)) = 2

\* C3: when a create or update call fails the run aborts at that call with the
\* parameter store as it was before the run; the next run over the same
\* organization never reports up to date and, when it completes, has listed
\* the owned definitions and published every definition again.
C3_FailedPublishKeepsDigests ==
    /\ (\E i \in 1..Len(calls) : calls[i].op \in PublishOps /\ ~calls[i].ok)
          => (pc = "aborted" /\ PublishFailed(calls) /\ ssm = ssm0)
    /\ (Running /\ prev.publishFailed /\ SameOrgAsPrev)
          => /\ decision # "uptodate"
             /\ (Enumerated => (FreshAccounts # StoredAccounts \/ FreshUnits # StoredUnits))
             /\ (pc = "done" => (decision = "rebuild" /\ AllPublished))

C3_Witness ==
    /\ prev.publishFailed /\ SameOrgAsPrev /\ pc = "done" /\ decision = "rebuild"
    /\ Len(CallsOf(PublishOps)) > 0

\* C4: when the fresh accounts fingerprint differs from the stored accounts
\* digest, or the fresh units fingerprint from the stored units digest, the
\* run takes the rebuild branch: it never reports up to date, it ends early
\* only at a call that failed, and when it completes it has listed the owned
\* definitions, published every built definition and stored both fresh
\* fingerprints.
C4_RebuildLaw ==
    (Enumerated /\ (FreshAccounts # StoredAccounts \/ FreshUnits # StoredUnits))
        => /\ decision # "uptodate"
           /\ (pc = "aborted" => ~calls[Len(calls)].ok)
           /\ (pc = "done" =>
                  /\ decision = "rebuild"
                  /\ \E i \in 1..Len(calls) : calls[i].op = "list_cost_category_definitions" /\ calls[i].ok
                  /\ AllPublished
                  /\ ssm_get_digest(ssm, SSM_PARAM_ORG_ACC_DIGEST) = FreshAccounts
                  /\ ssm_get_digest(ssm, SSM_PARAM_ORG_OUS_DIGEST) = FreshUnits)

\* the accounts fingerprint is the stored one, only the units differ
C4_Witness ==
    /\ pc = "done" /\ decision = "rebuild" /\ Enumerated
    /\ FreshAccounts = StoredAccounts /\ FreshUnits # StoredUnits
    /\ tags_tree # <<>>

OwnedAtStart(name) == \E i \in 1..Len(ce0) : ce0[i].Name = name /\ OwnershipMarker \in ce0[i].ResourceTags

\* C5: the create/update calls of a run address the built definitions one by
\* one in order, one call per name; the call for a name is an update, sent to
\* the identifier that name had when the run started, exactly when a
\* definition of that name carried the ownership marker then, and a create
\* otherwise; a created definition carries the marker; the definition an
\* update addresses carries the marker.
C5_PublisherAction ==
    LET pub == CallsOf(PublishOps)
        defs == build_cc_defs(tags_tree)
    IN  /\ Len(pub) <= Len(defs)
        /\ (pc \in {"l265", "l266"} => Len(pub) = Len(defs))
        /\ (pc = "l162" => Len(pub) = pos - 1)
        /\ \A i \in 1..Len(pub) :
              /\ pub[i].name = defs[i].name
              /\ \A j \in 1..Len(pub) : pub[j].name = pub[i].name => j = i
              /\ (pub[i].op = "update_cost_category_definition") <=> OwnedAtStart(pub[i].name)
              /\ pub[i].op = "update_cost_category_definition" =>
                    \E d \in 1..Len(ce0) :
                        /\ ce0[d].Arn = pub[i].arn
                        /\ ce0[d].Name = pub[i].name
                        /\ OwnershipMarker \in ce0[d].ResourceTags
              /\ (pub[i].op = "create_cost_category_definition" /\ pub[i].ok) =>
                    \E d \in 1..Len(ce) :
                        /\ ce[d].Name = pub[i].name
                        /\ OwnershipMarker \in ce[d].ResourceTags
                        /\ \A e \in 1..Len(ce0) : ce0[e].Arn # ce[d].Arn

\* one run that updates an owned definition and creates a new one while a
\* definition without the marker exists
C5_Witness ==
    /\ pc = "done"
    /\ \E i, j \in 1..Len(calls) :
          /\ calls[i].op = "update_cost_category_definition" /\ calls[i].ok
          /\ calls[j].op = "create_cost_category_definition" /\ calls[j].ok

\* ------------------------------------------------------------ Rule Builder
Built == pc # "l133"

RuleAt(d, r) == json_loads_rule(cc_defs[d].rules[r])

InRule(k, v, a) ==
    \E d \in 1..Len(cc_defs) :
        /\ cc_defs[d].name = k
        /\ \E r \in 1..Len(cc_defs[d].rules) :
              RuleAt(d, r).Value = v /\ a \in Range(RuleAt(d, r).Rule.Dimensions.Values)

Tagged(k, v, a) ==
    \E e \in 1..Len(tags_tree) : tags_tree[e].acct = a /\ <<k, v>> \in Range(tags_tree[e].tags)

KeysObserved == {k \in TagKeys : \E v \in TagValues, a \in Accounts : Tagged(k, v, a)}

ValuesObserved(k) == {v \in TagValues : \E a \in Accounts : Tagged(k, v, a)}

\* C6: grouping law - account a is among the Values of the rule labelled v of
\* the definition named k exactly when a carries the tag (k, v).
C6_GroupingLaw ==
    Built => \A k \in TagKeys, v \in TagValues, a \in Accounts : InRule(k, v, a) <=> Tagged(k, v, a)

\* two definitions, the first with two rules, the second with a rule of two accounts
C6_Witness ==
    /\ Built /\ Len(cc_defs) = 2 /\ Len(cc_defs[1].rules) = 2
    /\ Len(RuleAt(2, 1).Rule.Dimensions.Values) = 2

\* C7: output shape - one definition per tag key observed, in it one rule per
\* value observed for the key, labels unique, no definition without rules, no
\* rule without accounts, nothing for an empty tags_tree.
C7_OutputShape ==
    Built =>
        /\ Len(cc_defs) = Cardinality(KeysObserved)
        /\ {cc_defs[d].name : d \in 1..Len(cc_defs)} = KeysObserved
        /\ \A d \in 1..Len(cc_defs) :
              /\ Len(cc_defs[d].rules) = Cardinality(ValuesObserved(cc_defs[d].name))
              /\ {RuleAt(d, r).Value : r \in 1..Len(cc_defs[d].rules)} = ValuesObserved(cc_defs[d].name)
              /\ \A r1, r2 \in 1..Len(cc_defs[d].rules) : RuleAt(d, r1).Value = RuleAt(d, r2).Value => r1 = r2
              /\ Len(cc_defs[d].rules) > 0
              /\ \A r \in 1..Len(cc_defs[d].rules) : RuleAt(d, r).Rule.Dimensions.Values # <<>>
        /\ (tags_tree = <<>> => cc_defs = <<>>)

C7_Witness ==
    /\ Built /\ Len(cc_defs) = 2 /\ Len(cc_defs[1].rules) = 2 /\ Len(cc_defs[2].rules) = 2

\* ------------------------------------------------------------- convergence
\* C8: a run that starts with both digests absent never reports up to date;
\* when it has completed, the next run over the same organization issues no
\* write, does not take the rebuild branch and, when it completes, has
\* reported up to date.
C8_Convergence ==
    /\ (Running /\ DOMAIN ssm0 = {}) =>
          /\ decision # "uptodate"
          /\ pc # "l258"
          /\ (pc = "done" => (decision = "rebuild" /\ AllPublished
                              /\ DOMAIN ssm = {SSM_PARAM_ORG_ACC_DIGEST, SSM_PARAM_ORG_OUS_DIGEST}))
    /\ (Running /\ prev.fresh /\ SameOrgAsPrev) =>
          /\ NoWriteIssued
          /\ decision # "rebuild"
          /\ (pc = "done" => decision = "uptodate")

\* the empty organization: the second run reports up to date
C8_Witness ==
    /\ prev.fresh /\ SameOrgAsPrev /\ pc = "done" /\ decision = "uptodate"
    /\ DOMAIN org_account_tags = {} /\ DOMAIN org_tree = {}

\* --------------------------------------------------------------- lifecycle
Acks == CallsOf({"send_response"})

\* C9: a Delete invocation issues one send_response with SUCCESS and nothing
\* else: no enumeration, no digest read or write, no create or update.
C9_DeleteOnlyAcknowledges ==
    (Running /\ RequestType = "Delete") =>
        /\ pc \in {"l233", "done", "aborted"}
        /\ CallsOf(ReconcileOps) = <<>>
        /\ ssm = ssm0 /\ ce = ce0
        /\ Len(calls) = (IF pc = "l233" THEN 0 ELSE 1)
        /\ \A i \in 1..Len(calls) : calls[i].op = "send_response" /\ calls[i].name = "SUCCESS"
        /\ (pc = "done" => calls[1].ok)

C9_Witness ==
    /\ RequestType = "Delete" /\ pc = "done" /\ Len(Acks) = 1
    /\ DOMAIN ssm # {} /\ ce # <<>>

\* C10: on Create and Update the first call of the run is send_response with
\* SUCCESS, before any reconciliation call, and it is the only one, whether
\* the reconciliation then completes or aborts.
C10_AcknowledgeFirst ==
    (Running /\ RequestType \in {"Create", "Update"}) =>
        /\ Len(calls) = 0 <=> pc = "l230"
        /\ Len(calls) > 0 => (calls[1].op = "send_response" /\ calls[1].name = "SUCCESS")
        /\ Len(Acks) <= 1
        /\ (Len(calls) > 1 => calls[1].ok)

\* the acknowledgment was SUCCESS and the reconciliation after it failed
C10_Witness ==
    /\ RequestType = "Update" /\ pc = "aborted" /\ PublishFailed(calls)
    /\ calls[1].op = "send_response" /\ calls[1].ok

\* ---------------------------------------------------------- failed reads
FailedRead(i) == calls[i].op = "get_parameter" /\ ~calls[i].ok

\* C11: a get_parameter that fails with an error other than parameter-not-found
\* ends the run at that call: the run is aborted, the failed read is its last
\* call, no create, update or put was issued, and the definitions and the
\* parameter store are as they were when the run started.
C11_FailedReadIsFatal ==
    \A i \in 1..Len(calls) :
        FailedRead(i) =>
            /\ pc = "aborted"
            /\ i = Len(calls)
            /\ CallsOf(WriteOps) = <<>>
            /\ CallsOf({"list_cost_category_definitions"}) = <<>>
            /\ ssm = ssm0 /\ ce = ce0

\* the read of the units digest fails after the accounts digest matched, in an
\* organization whose tags have definitions to publish
C11_Witness ==
    /\ pc = "aborted" /\ Len(calls) = 3 /\ FailedRead(3)
    /\ calls[3].name = SSM_PARAM_ORG_OUS_DIGEST
    /\ tags_tree # <<>> /\ DOMAIN ssm # {}

\* ------------------------------------------------------ changes of units
\* the previous run completed and no account or tag changed since
AfterCompletedRunSameTags == Running /\ prev.outcome = "done" /\ prev.tags = org_account_tags

UnitIdsChanged == DOMAIN prev.tree # DOMAIN org_tree

UnitRenamed ==
    /\ DOMAIN prev.tree = DOMAIN org_tree
    /\ \E o \in DOMAIN org_tree : prev.tree[o].name # org_tree[o].name

RebuildsWhenRun ==
    /\ decision # "uptodate"
    /\ (pc = "done" => (decision = "rebuild" /\ AllPublished))

\* C12 as stated: after a completed run, a unit added, removed or renamed with
\* no account tag changed makes the next run rebuild.
C12_UnitChangeRebuilds_Original ==
    (AfterCompletedRunSameTags /\ (UnitIdsChanged \/ UnitRenamed)) => RebuildsWhenRun

\* C12 (amended): after a completed run, a unit added or removed with no
\* account tag changed makes the next run never report up to date and, when it
\* completes, take the rebuild branch and publish every definition; a unit
\* renamed, which changes no unit id, leaves the units fingerprint as stored.
C12_UnitChangeRebuilds ==
    /\ (AfterCompletedRunSameTags /\ UnitIdsChanged) => RebuildsWhenRun
    /\ (AfterCompletedRunSameTags /\ UnitRenamed /\ Enumerated) => FreshUnits = StoredUnits

\* a unit was removed or added after a completed run and the next run rebuilt
C12_Witness ==
    /\ AfterCompletedRunSameTags /\ UnitIdsChanged
    /\ pc = "done" /\ decision = "rebuild" /\ tags_tree # <<>>

\* -------------------------------------------------------------- allow-list
EntryOf(a) == {e \in 1..Len(tags_tree) : tags_tree[e].acct = a}

HasAllowedTag(a) ==
    a \in DOMAIN org_account_tags
    /\ \E i \in 1..Len(org_account_tags[a]) : org_account_tags[a][i][1] \in CATEGORIES_TAGS

InSomeBuiltRule(a) ==
    \E d \in 1..Len(cc_defs) : \E r \in 1..Len(cc_defs[d].rules) :
        a \in Range(RuleAt(d, r).Rule.Dimensions.Values)

\* C13: every entry of tags_tree holds only tags whose key is in
\* CATEGORIES_TAGS, and holds at least one; an account has an entry exactly
\* when it carries a tag with such a key, an account without one is in no
\* built rule, and every create or update call names a key of CATEGORIES_TAGS.
C13_AllowList ==
    Enumerated =>
        /\ \A e \in 1..Len(tags_tree) :
              /\ tags_tree[e].tags # <<>>
              /\ \A i \in 1..Len(tags_tree[e].tags) : tags_tree[e].tags[i][1] \in CATEGORIES_TAGS
        /\ \A a \in Accounts : Cardinality(EntryOf(a)) = (IF HasAllowedTag(a) THEN 1 ELSE 0)
        /\ \A a \in Accounts : ~HasAllowedTag(a) => ~InSomeBuiltRule(a)
        /\ \A d \in 1..Len(cc_defs) : cc_defs[d].name \in CATEGORIES_TAGS
        /\ \A i \in 1..Len(calls) : calls[i].op \in PublishOps => calls[i].name \in CATEGORIES_TAGS

\* an account carries only a tag outside the allow-list while another account
\* has a definition published
C13_Witness ==
    /\ pc = "done" /\ decision = "rebuild" /\ Len(CallsOf(PublishOps)) > 0
    /\ \E a \in DOMAIN org_account_tags :
          /\ org_account_tags[a] # <<>>
          /\ ~HasAllowedTag(a)
          /\ EntryOf(a) = {}

\* ------------------------------------------------------------- fingerprint
\* the same object with the items of every dict, at every depth, inserted in
\* the opposite order; lists keep their order
RECURSIVE ReverseDicts(_)
ReverseDicts(obj) ==
    IF obj.kind = "str" THEN obj
    ELSE IF obj.kind = "list"
    THEN JList([i \in 1..Len(obj.items) |-> ReverseDicts(obj.items[i])])
    ELSE JDict(Reverse([i \in 1..Len(obj.items) |->
                           [key |-> obj.items[i].key, val |-> ReverseDicts(obj.items[i].val)]]))

\* the same mapping with its items inserted in every other order
InsertionOrders(obj) ==
    {JDict([i \in 1..Len(obj.items) |-> obj.items[p[i]]]) : p \in Perms(1..Len(obj.items))}

\* tags_tree with the list of tags of one account in the opposite order
WithTagsReversed(tree, e) == [tree EXCEPT ![e].tags = Reverse(@)]

\* C14: the fingerprint of tags_tree is the fingerprint of the same mapping
\* with its entries inserted in any order and with the fields of the nested
\* tag mappings inserted in any order; the fingerprint of a list differs from
\* that of the same elements in another order, for org_units and for the list
\* of tags nested in tags_tree.
C14_FingerprintStability ==
    pc = "l257" =>
        /\ \A o \in InsertionOrders(TagsTreeObject(tags_tree)) :
              /\ hash_dict(o) = fresh.acc
              /\ hash_dict(ReverseDicts(o)) = fresh.acc
        /\ \A l \in Perms(Range(org_units)) : l # org_units => hash_dict(UnitsObject(l)) # fresh.ous
        /\ \A e \in 1..Len(tags_tree) :
              Len(tags_tree[e].tags) > 1 => hash_dict_map(WithTagsReversed(tags_tree, e)) # fresh.acc

\* two accounts listed in descending order, one of them with two tags, and
\* two units
C14_Witness ==
    /\ pc = "l257" /\ Len(tags_tree) = 2 /\ Len(org_units) = 2
    /\ tags_tree[1].acct > tags_tree[2].acct
    /\ Len(tags_tree[1].tags) = 2

\* ------------------------------------------------- failed acknowledgment
FailedAck == \E i \in 1..Len(calls) : calls[i].op = "send_response" /\ ~calls[i].ok

\* C15: when send_response fails on a Create or Update invocation the run is
\* aborted with that call as its only call: nothing was enumerated, no digest
\* was read or put, no definition was listed, created or updated.
C15_FailedAckIsFatal ==
    (Running /\ RequestType \in {"Create", "Update"} /\ FailedAck) =>
        /\ pc = "aborted"
        /\ Len(calls) = 1
        /\ CallsOf(ReconcileOps) = <<>>
        /\ tags_tree = <<>> /\ org_units = <<>> /\ decision = "none"
        /\ ssm = ssm0 /\ ce = ce0

\* the acknowledgment of a Create fails in an organization whose tags have
\* definitions to publish and whose digests are not stored
C15_Witness ==
    /\ RequestType = "Create" /\ pc = "aborted" /\ FailedAck
    /\ DOMAIN ssm = {}
    /\ \E a \in DOMAIN org_account_tags : HasAllowedTag(a)

\* ------------------------------------------------------------ skip in sync
\* what a list of rules says: for each label, the set of its accounts
RuleContent(rules) == {<<rules[r].Value, Range(rules[r].Rule.Dimensions.Values)>> : r \in 1..Len(rules)}

BuiltRulesOf(name) ==
    LET defs == build_cc_defs(tags_tree)
    IN  LoadRules(defs[CHOOSE d \in 1..Len(defs) : defs[d].name = name].rules)

BuiltNames == {build_cc_defs(tags_tree)[d].name : d \in 1..Len(build_cc_defs(tags_tree))}

InSync ==
    \A d \in 1..Len(ce) :
        (OwnershipMarker \in ce[d].ResourceTags /\ ce[d].Name \in BuiltNames)
            => RuleContent(ce[d].Rules) = RuleContent(BuiltRulesOf(ce[d].Name))

\* C16: whenever a run is skipped as up to date, every owned definition named
\* by a tag key of tags_tree holds the labels and, for each label, the
\* accounts that the Rule Builder produces from tags_tree.
C16_SkipImpliesInSync == (pc = "done" /\ decision = "uptodate") => InSync

\* ------------------------------------------------ whole-document replacement
UpdatedOk(i) == calls[i].op = "update_cost_category_definition" /\ calls[i].ok

RemoteOf(arn) == ce[CHOOSE d \in 1..Len(ce) : ce[d].Arn = arn]

RemoteAtStartOf(arn) == ce0[CHOOSE d \in 1..Len(ce0) : ce0[d].Arn = arn]

Labels(rules) == {rules[r].Value : r \in 1..Len(rules)}

\* the rules the Rule Builder left in cc_defs for a name
RulesInCcDefs(name) == LoadRules(cc_defs[CHOOSE d \in 1..Len(cc_defs) : cc_defs[d].name = name].rules)

\* C17: once the update of an owned definition k has returned, the remote
\* rules of k are the rules the Rule Builder built for k, rule for rule: every
\* label of the remote rules is a value some account carries for k in
\* tags_tree, every account of a label carries that value, every account that
\* carries a value for k is in the rule of that label, and no label occurs
\* twice.
C17_WholeDocumentReplacement ==
    \A i \in 1..Len(calls) :
        UpdatedOk(i) =>
            LET remote == RemoteOf(calls[i].arn)
            IN  /\ remote.Name = calls[i].name
                /\ remote.Rules = RulesInCcDefs(calls[i].name)
                /\ \A v \in TagValues, a \in Accounts :
                      Tagged(calls[i].name, v, a) =>
                          \E r \in 1..Len(remote.Rules) :
                              /\ remote.Rules[r].Value = v
                              /\ a \in Range(remote.Rules[r].Rule.Dimensions.Values)
                /\ \A r \in 1..Len(remote.Rules) :
                      /\ remote.Rules[r].Rule.Dimensions.Values # <<>>
                      /\ \A a \in Range(remote.Rules[r].Rule.Dimensions.Values) :
                             Tagged(calls[i].name, remote.Rules[r].Value, a)
                      /\ \A q \in 1..Len(remote.Rules) :
                             remote.Rules[q].Value = remote.Rules[r].Value => q = r

\* an update whose definition held, when the run started, a label that no
\* account carries any more
C17_Witness ==
    /\ pc = "done"
    /\ \E i \in 1..Len(calls) :
          /\ UpdatedOk(i)
          /\ Labels(RemoteAtStartOf(calls[i].arn).Rules) \ Labels(RemoteOf(calls[i].arn).Rules) # {}

\* -------------------------------------------------------------------- frame
\* the tag keys of tags_tree
TagKeysOf(tree) == UNION {{tree[e].tags[i][1] : i \in 1..Len(tree[e].tags)} : e \in 1..Len(tree)}

\* C18: every definition that existed when the run started still exists, with
\* its name, identifier and resource tags; every create or update call names
\* a tag key of tags_tree; a definition whose name is not a tag key of
\* tags_tree is as it was when the run started, rules included.
C18_Frame ==
    LET keys == TagKeysOf(tags_tree)
    IN  /\ Len(ce) >= Len(ce0)
        /\ \A d \in 1..Len(ce0) :
              /\ ce[d].Name = ce0[d].Name
              /\ ce[d].Arn = ce0[d].Arn
              /\ ce[d].ResourceTags = ce0[d].ResourceTags
              /\ ce0[d].Name \notin keys => ce[d] = ce0[d]
        /\ \A i \in 1..Len(calls) : calls[i].op \in PublishOps => calls[i].name \in keys

\* a rebuild completes over an organization in which no account carries the
\* tag key of an owned definition any more; the definition keeps its rules
C18_Witness ==
    /\ pc = "done" /\ decision = "rebuild"
    /\ \E d \in 1..Len(ce) :
          /\ OwnershipMarker \in ce[d].ResourceTags
          /\ ce[d].Name \notin TagKeysOf(tags_tree)
          /\ ce[d].Rules # <<>>

\* ----------------------------------------------------------- unit discovery
Descendants(tree) == {o \in DOMAIN tree : ReachesRoot(tree, o, Cardinality(DOMAIN tree))}

IsSorted(l) == \A i, j \in 1..Len(l) : i < j => l[i] < l[j]

\* C19: for every tree and every order in which the children of a unit are
\* listed, the search ends and org_units holds, once each and sorted, exactly
\* the units under the root at any depth, and not the root.
C19_UnitDiscovery ==
    Enumerated =>
        /\ Range(org_units) = Descendants(org_tree)
        /\ Range(org_units) = DOMAIN org_tree
        /\ RootId \notin Range(org_units)
        /\ IsSorted(org_units)

\* a tree three levels deep
C19_Witness ==
    /\ Enumerated /\ Len(org_units) = 3
    /\ \E o \in DOMAIN org_tree :
          /\ org_tree[o].parent \in DOMAIN org_tree
          /\ org_tree[org_tree[o].parent].parent \in DOMAIN org_tree

====
